---- MODULE Spec2Model ----
(***************************************************************************)
(* The content-dedup ledger and upload orchestrator of go-pd:             *)
(* pkg/pd/utils/hash_utils.go (ledger), the two SaveUploadInfoToCSV       *)
(* definitions (audit log), GetFilesInDirectory (directory walk) and      *)
(* PixelDrainClient.UploadPOST / uploadFile / UploadDirectory (pd.go).    *)
(* The client is built with Debug = false.                                *)
(***************************************************************************)
EXTENDS Integers, Sequences, FiniteSets, TLC

VARIABLES fs, ledger, audit, header, csvWriter, envMode, rejected, last, run

vars == <<fs, ledger, audit, header, csvWriter, envMode, rejected, last, run>>

(***************************************************************************)
(* Bounds of the model.                                                    *)
(***************************************************************************)
\* distinct byte contents a file or a stream can hold (1..MaxContent)
MaxContent == 2
\* rows the ledger files may hold together before further appends are no
\* longer explored
MaxLedgerRows == 3
\* upload records the audit log may hold before uploads that log are no
\* longer explored
MaxAuditRows == 3

Contents == 1..MaxContent
\* fs[p] = Absent: no file at p
Absent == 0
\* a request without a stream (r.File == nil)
NoStream == 0

(***************************************************************************)
(* The file tree: testdata/test_directory holds three regular files, one  *)
(* of them in a nested subdirectory. filepath.Walk visits in lexical      *)
(* order.                                                                  *)
(***************************************************************************)
FilePaths == {"d/a", "d/b", "d/s/c"}
DirPaths == {"d", "d/s"}

Children(dir) ==
    IF dir = "d" THEN <<"d/a", "d/b", "d/s">>
    ELSE IF dir = "d/s" THEN <<"d/s/c">>
    ELSE <<>>

\* filepath.Base
Base(path) ==
    IF path = "d/a" THEN "a"
    ELSE IF path = "d/b" THEN "b"
    ELSE IF path = "d/s/c" THEN "c"
    ELSE path

IsDir(path) == path \in DirPaths

\* os.Stat(path) succeeds
StatOK(f, path) == IsDir(path) \/ (path \in FilePaths /\ f[path] # Absent)

(***************************************************************************)
(* Ledger locations. GetHashFilePath picks one from ENV_MODE.              *)
(***************************************************************************)
Locs == {"hashes.csv", "test_hashes.csv"}

GetHashFilePath(mode) == IF mode = "test" THEN "test_hashes.csv" ELSE "hashes.csv"

(***************************************************************************)
(* SHA-256, hex encoded. Sha256Sum holds the 32 bytes of hash.Sum(nil) for *)
(* each byte content: testdata/cat.jpg, an empty file, 1048576 zero bytes, *)
(* 1023 zero bytes.                                                        *)
(***************************************************************************)
Sha256Sum ==
    <<<<26, 249, 61, 104, 0, 155, 223, 213, 46, 29, 161, 0, 160, 25, 163, 11,
        95, 224, 131, 210, 209, 19, 9, 25, 34, 90, 208, 253, 61, 31, 237, 11>>,
      <<227, 176, 196, 66, 152, 252, 28, 20, 154, 251, 244, 200, 153, 111, 185, 36,
        39, 174, 65, 228, 100, 155, 147, 76, 164, 149, 153, 27, 120, 82, 184, 85>>,
      <<48, 225, 73, 85, 235, 241, 53, 34, 102, 220, 47, 248, 6, 126, 104, 16,
        70, 7, 231, 80, 171, 185, 211, 179, 101, 130, 184, 175, 144, 159, 203, 88>>,
      <<87, 36, 121, 104, 96, 186, 162, 52, 105, 179, 17, 142, 255, 37, 103, 201,
        106, 11, 100, 183, 218, 218, 249, 158, 175, 183, 186, 60, 101, 185, 170, 86>>>>

\* the digits of hex.EncodeToString
HexDigits == <<"0", "1", "2", "3", "4", "5", "6", "7", "8", "9", "a", "b", "c", "d", "e", "f">>

RECURSIVE EncodeToString(_)
\* hex.EncodeToString: two digits per byte, high nibble first
EncodeToString(src) ==
    IF src = <<>> THEN ""
    ELSE HexDigits[(Head(src) \div 16) + 1] \o HexDigits[(Head(src) % 16) + 1]
            \o EncodeToString(Tail(src))

DigestTable == [c \in DOMAIN Sha256Sum |-> EncodeToString(Sha256Sum[c])]

Sha256Hex(bytes) == DigestTable[bytes]

Digests == {Sha256Hex(c) : c \in Contents}

NoErr == "nil"

\* I/O calls of one invocation that the environment can make fail
IOFaults == {"none", "hash", "load", "audit", "rehash", "append"}

\* a variant of CalculateFileHash that digests the name of the file
CalculateFileHashOfName(f, filePath, fail) ==
    IF filePath \notin FilePaths \/ f[filePath] = Absent
    THEN [err |-> "open/read " \o filePath, hash |-> ""]
    ELSE IF fail THEN [err |-> "read error", hash |-> ""]
    ELSE [err |-> NoErr, hash |-> Sha256Hex(IF filePath = "d/a" THEN 1 ELSE 2)]

\* CalculateFileHash: os.Open fails on a missing file, io.Copy on a directory
\* or when the read fails (fail)
CalculateFileHash(f, filePath, fail) ==
    IF filePath \notin FilePaths \/ f[filePath] = Absent
    THEN [err |-> "open/read " \o filePath, hash |-> ""]
    ELSE IF fail THEN [err |-> "read error", hash |-> ""]
    ELSE [err |-> NoErr, hash |-> Sha256Hex(f[filePath])]

\* a variant of InitializeHashFile that creates the file whether it exists or not
InitializeHashFileTruncate(L, hashFilePath) ==
    [L EXCEPT ![hashFilePath] = [exists |-> TRUE, rows |-> <<>>]]

\* InitializeHashFile: create an empty file when os.Stat says it does not exist
InitializeHashFile(L, hashFilePath) ==
    IF ~L[hashFilePath].exists
    THEN [L EXCEPT ![hashFilePath] = [exists |-> TRUE, rows |-> <<>>]]
    ELSE L

\* a variant of the map assignment that keeps the value a key already has
MapPutFirst(hashes, key, value) ==
    [k \in (DOMAIN hashes) \cup {key} |-> IF k \in DOMAIN hashes THEN hashes[k] ELSE value]

\* hashes[record[0]] = record[1]
MapPut(hashes, key, value) ==
    [k \in (DOMAIN hashes) \cup {key} |-> IF k = key THEN value ELSE hashes[k]]

RECURSIVE LoadLoop(_, _, _)
\* for _, record := range records { hashes[record[0]] = record[1] }
LoadLoop(records, i, hashes) ==
    IF i > Len(records) THEN hashes
    ELSE LoadLoop(records, i + 1, MapPut(hashes, records[i][1], records[i][2]))

EmptyMap == [k \in {} |-> ""]

\* LoadFileHashes: initialise, read every record, fold them into a map
LoadFileHashes(L, hashFilePath, io) ==
    LET L1 == InitializeHashFile(L, hashFilePath) IN
    IF io = "load"
    THEN [err |-> "read " \o hashFilePath, hashes |-> EmptyMap, ledger |-> L1]
    ELSE [err |-> NoErr,
          hashes |-> LoadLoop(L1[hashFilePath].rows, 1, EmptyMap),
          ledger |-> L1]

\* a variant of the lookup that compares the paths (the keys) with newHash
HashInMapKeys(hashes, newHash) == \E k \in DOMAIN hashes : k = newHash

\* for _, hash := range hashes { if hash == newHash { return true } }
HashInMap(hashes, newHash) == \E k \in DOMAIN hashes : hashes[k] = newHash

\* a variant of IsDuplicate that never finds the hash
IsDuplicateNever(f, L, hashFilePath, filePath, io) ==
    LET h == CalculateFileHash(f, filePath, io = "hash") IN
    IF h.err # NoErr THEN [err |-> h.err, dup |-> FALSE, ledger |-> L]
    ELSE LET ld == LoadFileHashes(L, hashFilePath, io) IN
         IF ld.err # NoErr THEN [err |-> ld.err, dup |-> FALSE, ledger |-> ld.ledger]
         ELSE [err |-> NoErr, dup |-> FALSE, ledger |-> ld.ledger]

\* IsDuplicate: hash the file, load the ledger, look the hash up in the map
IsDuplicate(f, L, hashFilePath, filePath, io) ==
    LET h == CalculateFileHash(f, filePath, io = "hash") IN
    IF h.err # NoErr THEN [err |-> h.err, dup |-> FALSE, ledger |-> L]
    ELSE LET ld == LoadFileHashes(L, hashFilePath, io) IN
         IF ld.err # NoErr THEN [err |-> ld.err, dup |-> FALSE, ledger |-> ld.ledger]
         ELSE [err |-> NoErr, dup |-> HashInMap(ld.hashes, h.hash), ledger |-> ld.ledger]

\* a variant of the write that replaces the row of a path already present
AppendRowUpsert(L, hashFilePath, filePath, hash) ==
    LET rows == L[hashFilePath].rows
        at   == {i \in DOMAIN rows : rows[i][1] = filePath}
    IN  IF at = {} THEN [L EXCEPT ![hashFilePath].rows = Append(@, <<filePath, hash>>)]
        ELSE [L EXCEPT ![hashFilePath].rows =
                 [i \in DOMAIN rows |-> IF i \in at THEN <<filePath, hash>> ELSE rows[i]]]

\* a variant of the write that puts the hash in the first column
AppendRowSwapped(L, hashFilePath, filePath, hash) ==
    [L EXCEPT ![hashFilePath].rows = Append(@, <<hash, filePath>>)]

\* writer.Write([]string{filePath, hash}) on the file opened with O_APPEND
AppendRow(L, hashFilePath, filePath, hash) ==
    [L EXCEPT ![hashFilePath].rows = Append(@, <<filePath, hash>>)]

\* a variant of SaveFileHash that appends without the duplicate check
SaveFileHashAlways(f, L, hashFilePath, filePath, hash, io) ==
    LET L1 == InitializeHashFile(L, hashFilePath) IN
    IF io = "append" THEN [err |-> "open " \o hashFilePath, ledger |-> L1]
    ELSE [err |-> NoErr, ledger |-> AppendRow(L1, hashFilePath, filePath, hash)]

\* a variant of SaveFileHash that looks up the hash it is given
SaveFileHashByArg(f, L, hashFilePath, filePath, hash, io) ==
    LET L1 == InitializeHashFile(L, hashFilePath)
        ld == LoadFileHashes(L1, hashFilePath, io)
    IN  IF ld.err # NoErr THEN [err |-> ld.err, ledger |-> ld.ledger]
        ELSE IF HashInMap(ld.hashes, hash) THEN [err |-> NoErr, ledger |-> ld.ledger]
        ELSE IF io = "append" THEN [err |-> "open " \o hashFilePath, ledger |-> ld.ledger]
        ELSE [err |-> NoErr, ledger |-> AppendRow(ld.ledger, hashFilePath, filePath, hash)]

\* SaveFileHash: initialise, skip when IsDuplicate says so, else append
SaveFileHash(f, L, hashFilePath, filePath, hash, io) ==
    LET L1 == InitializeHashFile(L, hashFilePath)
        d  == IsDuplicate(f, L1, hashFilePath, filePath, io)
    IN  IF d.err # NoErr THEN [err |-> d.err, ledger |-> d.ledger]
        ELSE IF d.dup THEN [err |-> NoErr, ledger |-> d.ledger]
        ELSE IF io = "append" THEN [err |-> "open " \o hashFilePath, ledger |-> d.ledger]
        ELSE [err |-> NoErr, ledger |-> AppendRow(d.ledger, hashFilePath, filePath, hash)]

(***************************************************************************)
(* The audit log. The repository holds two definitions of                 *)
(* SaveUploadInfoToCSV; csvWriter names the one the build links.          *)
(***************************************************************************)
CsvWriters == {"csv_writer.go", "part_002"}

CsvHeader ==
    <<"File Name", "Directory Path", "URL", "Upload Date and Time",
      "File Size", "MIME Type", "Uploader Username", "Upload Status">>

\* byte length of each content (the second is an empty file)
SizeTable == <<1536, 0, 1048576, 1023>>

FileSizeOf(bytes) == SizeTable[bytes]

UnitNames == <<"B", "KB", "MB", "GB", "TB">>

RECURSIVE Pow1024(_)
Pow1024(k) == IF k = 0 THEN 1 ELSE 1024 * Pow1024(k - 1)

RECURSIVE UnitIndex(_, _)
\* number of divisions by 1024 while the value is >= 1024
UnitIndex(size, k) ==
    IF size \div Pow1024(k) >= 1024 /\ k + 1 < Len(UnitNames)
    THEN UnitIndex(size, k + 1) ELSE k

\* size / 1024^k in tenths, rounded to nearest, ties to even (%.1f)
Tenths(size, k) ==
    LET num == size * 10
        den == Pow1024(k)
        q   == num \div den
        r2  == 2 * (num % den)
    IN  IF r2 > den \/ (r2 = den /\ q % 2 = 1) THEN q + 1 ELSE q

\* FormatFileSize: scale by 1024, one decimal place, unit suffix
FormatFileSize(size) ==
    LET k == UnitIndex(size, 0)
        t == Tenths(size, k)
    IN  ToString(t \div 10) \o "." \o ToString(t % 10) \o " " \o UnitNames[k + 1]

\* csv_writer.go: header when the file is empty, size written with %d
SaveUploadInfoToCSVHeader(rows, info) ==
    LET record == <<info.FileName, info.DirectoryPath, info.URL, info.UploadDateTime,
                    ToString(info.FileSize), info.MIMEType, info.Uploader,
                    info.UploadStatus>>
    IN  IF Len(rows) = 0 THEN <<CsvHeader, record>> ELSE Append(rows, record)

\* part_002: no header, size written through FormatFileSize
SaveUploadInfoToCSVFormatted(rows, info) ==
    LET record == <<info.FileName, info.DirectoryPath, info.URL, info.UploadDateTime,
                    FormatFileSize(info.FileSize), info.MIMEType, info.Uploader,
                    info.UploadStatus>>
    IN  Append(rows, record)

\* SaveUploadInfoToCSV as linked: os.OpenFile may fail, else one Write
SaveUploadInfoToCSV(build, rows, info, io) ==
    IF io = "audit" THEN [err |-> "open upload_logs.csv", rows |-> rows]
    ELSE [err |-> NoErr,
          rows |-> IF build = "csv_writer.go"
                   THEN SaveUploadInfoToCSVHeader(rows, info)
                   ELSE SaveUploadInfoToCSVFormatted(rows, info)]

\* the rows of the audit log that are upload records
AuditRecords(rows) == SelectSeq(rows, LAMBDA row : row # CsvHeader)

(***************************************************************************)
(* Requests, the remote service and the transport.                        *)
(***************************************************************************)
APIURL == "https://pixeldrain.com/api"
ServerURL == "http://127.0.0.1:8080"
BaseURL == "https://pixeldrain.com/"

\* a URL is kept as base and suffix; NoURL is the empty string
MkURL(base, suffix) == [base |-> base, suffix |-> suffix]
NoURL == MkURL("", "")

\* the transport can reach a URL only when its base has an http(s) scheme
HasHTTPScheme(url) == url.base \in {APIURL, ServerURL}

ErrMissingPathToFile == "file path or file reader is required"
ErrMissingFilename == "if you use ReadCloser you need to specify the filename"
ErrTransport == "transport error"
ErrScheme == "unsupported protocol scheme"
ErrJSON == "invalid character in response body"

StatusConflict == 409

\* Auth.IsAuthAvailable
IsAuthAvailable(auth) == auth # ""

\* base64.StdEncoding of ":" + key, for the keys of the model
Base64Colon(p) ==
    IF p = "test-api-key" THEN "OnRlc3QtYXBpLWtleQ=="
    ELSE IF p = "" THEN "Og=="
    ELSE "OmtleQ=="

generateBasicAuthToken(u, p) == Base64Colon(p)

\* addBasicAuthHeader: h["Authorization"] = "Basic " + token
addBasicAuthHeader(h, u, p) == "Basic " \o generateBasicAuthToken(u, p)

\* what the environment lets one Post return
NetError == [kind |-> "error", status |-> 0, json |-> FALSE]
NetResponse(status, json) == [kind |-> "response", status |-> status, json |-> json]
NetOutcomes == {NetError, NetResponse(201, TRUE), NetResponse(500, TRUE),
                NetResponse(502, FALSE)}

\* pd.Client.Request.Post: an error for a URL without scheme, else the
\* environment's outcome
Post(url, net) == IF HasHTTPScheme(url) THEN net ELSE NetError

PostError(url) == IF HasHTTPScheme(url) THEN ErrTransport ELSE ErrScheme

NilResponse == [isNil |-> TRUE, StatusCode |-> 0, Success |-> FALSE, Message |-> "", ID |-> ""]

\* a variant of the synthetic result that reports success
DuplicateResponseOK ==
    [isNil |-> FALSE, StatusCode |-> 200, Success |-> TRUE,
     Message |-> "Duplicate file. Upload skipped.", ID |-> ""]

\* the synthetic result of a skipped upload
DuplicateResponse ==
    [isNil |-> FALSE, StatusCode |-> StatusConflict, Success |-> FALSE,
     Message |-> "Duplicate file. Upload skipped.", ID |-> ""]

\* uploadRsp after StatusCode is set and the JSON body is decoded into it
DecodedResponse(net) ==
    IF net.status = 201
    THEN [isNil |-> FALSE, StatusCode |-> 201, Success |-> TRUE, Message |-> "",
          ID |-> "mock-file-id"]
    ELSE [isNil |-> FALSE, StatusCode |-> net.status, Success |-> FALSE,
          Message |-> "internal server error", ID |-> ""]

\* ResponseUpload.GetFileURL
GetFileURL(rsp) == BaseURL \o "u/" \o rsp.ID

\* http.DetectContentType of the first 512 bytes / utils.GetMimeType
MimeOfStream(bytes) == IF FileSizeOf(bytes) = 0 THEN "application/octet-stream" ELSE "image/jpeg"
GetMimeType(bytes) == IF FileSizeOf(bytes) = 0 THEN "" ELSE "image/jpeg"

MkRequest(path, file, name, anonymous, auth, url) ==
    [PathToFile |-> path, File |-> file, FileName |-> name, Anonymous |-> anonymous,
     Auth |-> auth, URL |-> url]

(***************************************************************************)
(* The directory walk.                                                     *)
(***************************************************************************)
RECURSIVE Walk(_, _), WalkChildren(_, _, _)
\* a variant of the callback that collects the directories as well
WalkListingDirs(f, path) ==
    IF IsDir(path) THEN <<path>> \o WalkChildren(f, Children(path), 1)
    ELSE IF f[path] # Absent THEN <<path>> ELSE <<>>

\* filepath.Walk with the callback of GetFilesInDirectory: regular files are
\* collected in visiting order, directories are descended into
Walk(f, path) ==
    IF IsDir(path) THEN WalkChildren(f, Children(path), 1)
    ELSE IF f[path] # Absent THEN <<path>> ELSE <<>>

WalkChildren(f, names, i) ==
    IF i > Len(names) THEN <<>>
    ELSE Walk(f, names[i]) \o WalkChildren(f, names, i + 1)

\* a variant of GetFilesInDirectory that returns, with the error of a failed
\* walk, the files collected before the failure
GetFilesInDirectoryPartial(f, dirPath, walk) ==
    IF ~StatOK(f, dirPath) THEN [err |-> "lstat " \o dirPath, files |-> <<>>]
    ELSE IF walk # "ok"
    THEN [err |-> "walk " \o dirPath, files |-> SubSeq(Walk(f, dirPath), 1, 1)]
    ELSE [err |-> NoErr, files |-> Walk(f, dirPath)]

\* GetFilesInDirectory: the error of the walk and no list, or the list. The
\* walk fails when the root does not exist (Lstat) or when the environment
\* makes a directory unreadable (walk)
GetFilesInDirectory(f, dirPath, walk) ==
    IF ~StatOK(f, dirPath) THEN [err |-> "lstat " \o dirPath, files |-> <<>>]
    ELSE IF walk # "ok" THEN [err |-> "walk " \o dirPath, files |-> <<>>]
    ELSE [err |-> NoErr, files |-> Walk(f, dirPath)]

(***************************************************************************)
(* The orchestrator. ctx = [fs, build, mode] is what a call reads only,   *)
(* w = [ledger, audit, header] what it may write; e is what the            *)
(* environment does during the call: e.nets[i] the outcome of the i-th    *)
(* file's Post, e.io the I/O call that fails while file e.ioAt is          *)
(* processed, e.walk the outcome of the directory walk.                    *)
(***************************************************************************)
Failed(w, sent, err, files) ==
    [ledger |-> w.ledger, audit |-> w.audit, header |-> w.header, sent |-> sent,
     res |-> NilResponse, err |-> err, outcome |-> "Failed", files |-> files]

Returned(w, sent, res, outcome, files) ==
    [ledger |-> w.ledger, audit |-> w.audit, header |-> w.header, sent |-> sent,
     res |-> res, err |-> NoErr, outcome |-> outcome, files |-> files]

IoOf(e, i) == IF e.ioAt = i THEN e.io ELSE "none"

\* the part of e that concerns the i-th file of a batch
EnvOfFile(e, i) == [nets |-> <<e.nets[i]>>, io |-> IoOf(e, i), ioAt |-> 1, walk |-> "ok"]

Is2xx(status) == status >= 200 /\ status <= 299

\* a variant of uploadFileRecord that records accepted uploads only
uploadFileRecordAccepted(ctx, w, r, hashFilePath, filePath, fileName, fileSize, mimeType, tx, rsp, io) ==
    IF rsp.kind = "error" THEN Failed(w, <<tx>>, PostError(tx.url), <<>>)
    ELSE IF ~rsp.json THEN Failed(w, <<tx>>, ErrJSON, <<>>)
    ELSE
    LET uploadRsp == DecodedResponse(rsp) IN
    IF filePath = "N/A" \/ ~Is2xx(uploadRsp.StatusCode)
    THEN Returned(w, <<tx>>, uploadRsp, "Unrecorded", <<>>)
    ELSE
    LET uploadInfo == [FileName |-> fileName, DirectoryPath |-> filePath,
                       URL |-> GetFileURL(uploadRsp), UploadDateTime |-> "RFC3339",
                       FileSize |-> fileSize, MIMEType |-> mimeType,
                       Uploader |-> r.Auth, UploadStatus |-> ToString(uploadRsp.StatusCode)]
        a  == SaveUploadInfoToCSV(ctx.build, w.audit, uploadInfo, io)
        w1 == [w EXCEPT !.audit = a.rows]
        s  == SaveFileHash(ctx.fs, w1.ledger, hashFilePath, filePath,
                           Sha256Hex(ctx.fs[filePath]), io)
    IN  Returned([w1 EXCEPT !.ledger = s.ledger], <<tx>>, uploadRsp, "Recorded", <<>>)

\* a variant of uploadFileRecord that writes the ledger row of a file whose
\* transmission raised an error
uploadFileRecordOnError(ctx, w, r, hashFilePath, filePath, fileName, fileSize, mimeType, tx, rsp, io) ==
    IF rsp.kind = "error"
    THEN IF filePath = "N/A" THEN Failed(w, <<tx>>, PostError(tx.url), <<>>)
         ELSE Failed([w EXCEPT !.ledger =
                         SaveFileHash(ctx.fs, w.ledger, hashFilePath, filePath,
                                      Sha256Hex(ctx.fs[filePath]), io).ledger],
                     <<tx>>, PostError(tx.url), <<>>)
    ELSE IF ~rsp.json THEN Failed(w, <<tx>>, ErrJSON, <<>>)
    ELSE
    LET uploadRsp == DecodedResponse(rsp) IN
    IF filePath = "N/A" THEN Returned(w, <<tx>>, uploadRsp, "Unrecorded", <<>>)
    ELSE
    LET uploadInfo == [FileName |-> fileName, DirectoryPath |-> filePath,
                       URL |-> GetFileURL(uploadRsp), UploadDateTime |-> "RFC3339",
                       FileSize |-> fileSize, MIMEType |-> mimeType,
                       Uploader |-> r.Auth, UploadStatus |-> ToString(uploadRsp.StatusCode)]
        a  == SaveUploadInfoToCSV(ctx.build, w.audit, uploadInfo, io)
        w1 == [w EXCEPT !.audit = a.rows]
        s  == SaveFileHash(ctx.fs, w1.ledger, hashFilePath, filePath,
                           Sha256Hex(ctx.fs[filePath]), io)
    IN  IF a.err # NoErr THEN Failed(w, <<tx>>, a.err, <<>>)
        ELSE IF s.err # NoErr THEN Failed([w1 EXCEPT !.ledger = s.ledger], <<tx>>, s.err, <<>>)
        ELSE Returned([w1 EXCEPT !.ledger = s.ledger], <<tx>>, uploadRsp, "Recorded", <<>>)

\* uploadFile, from the Post on: decode, audit row, digest, ledger row
uploadFileRecord(ctx, w, r, hashFilePath, filePath, fileName, fileSize, mimeType, tx, rsp, io) ==
    IF rsp.kind = "error" THEN Failed(w, <<tx>>, PostError(tx.url), <<>>)
    ELSE IF ~rsp.json THEN Failed(w, <<tx>>, ErrJSON, <<>>)
    ELSE
    LET uploadRsp == DecodedResponse(rsp) IN
    IF filePath = "N/A" THEN Returned(w, <<tx>>, uploadRsp, "Unrecorded", <<>>)
    ELSE
    LET uploadInfo == [FileName |-> fileName, DirectoryPath |-> filePath,
                       URL |-> GetFileURL(uploadRsp), UploadDateTime |-> "RFC3339",
                       FileSize |-> fileSize, MIMEType |-> mimeType,
                       Uploader |-> r.Auth, UploadStatus |-> ToString(uploadRsp.StatusCode)]
        a  == SaveUploadInfoToCSV(ctx.build, w.audit, uploadInfo, io)
        w1 == [w EXCEPT !.audit = a.rows]
    IN
    IF a.err # NoErr THEN Failed(w, <<tx>>, a.err, <<>>)
    ELSE
    LET h == CalculateFileHash(ctx.fs, filePath, io = "rehash") IN
    IF h.err # NoErr THEN Failed(w1, <<tx>>, h.err, <<>>)
    ELSE
    LET s  == SaveFileHash(ctx.fs, w1.ledger, hashFilePath, filePath, h.hash, io)
        w2 == [w1 EXCEPT !.ledger = s.ledger]
    IN
    IF s.err # NoErr THEN Failed(w2, <<tx>>, s.err, <<>>)
    ELSE Returned(w2, <<tx>>, uploadRsp, "Recorded", <<>>)

\* uploadFile: pick the content (stream or file), set the header, Post, record
uploadFile(ctx, w, r, hashFilePath, net, io) ==
    LET url == IF r.URL = NoURL THEN MkURL(APIURL, "/file") ELSE r.URL
        hasFile == r.File # NoStream
    IN
    IF hasFile /\ r.FileName = "" THEN Failed(w, <<>>, ErrMissingFilename, <<>>)
    ELSE IF ~hasFile /\ (r.PathToFile \notin FilePaths \/ ctx.fs[r.PathToFile] = Absent)
    THEN Failed(w, <<>>, "open " \o r.PathToFile, <<>>)
    ELSE
    LET bytes    == IF hasFile THEN r.File ELSE ctx.fs[r.PathToFile]
        fileName == IF hasFile THEN r.FileName ELSE Base(r.PathToFile)
        filePath == IF hasFile /\ r.PathToFile = "" THEN "N/A" ELSE r.PathToFile
        fileSize == FileSizeOf(bytes)
        mimeType == IF hasFile THEN MimeOfStream(bytes) ELSE GetMimeType(bytes)
        hdr == IF IsAuthAvailable(r.Auth) /\ ~r.Anonymous
               THEN addBasicAuthHeader(w.header, "", r.Auth) ELSE w.header
        w0  == [w EXCEPT !.header = hdr]
        rsp == Post(url, net)
        tx  == [url |-> url, fileName |-> fileName, bytes |-> bytes,
                authorization |-> hdr, anonymous |-> r.Anonymous, rsp |-> rsp]
    IN  uploadFileRecord(ctx, w0, r, hashFilePath, filePath, fileName, fileSize,
                         mimeType, tx, rsp, io)

RECURSIVE UploadPOST(_, _, _, _, _), UploadDirectory(_, _, _, _, _, _),
          UploadLoop(_, _, _, _, _, _, _, _, _, _),
          UploadLoopContinue(_, _, _, _, _, _, _, _, _, _)

\* a variant of the duplicate check that saves the row of a duplicate again
UploadPOSTFileResave(ctx, w, r, hashFilePath, e) ==
    IF r.PathToFile # ""
    THEN LET d  == IsDuplicate(ctx.fs, w.ledger, hashFilePath, r.PathToFile, IoOf(e, 1))
             w1 == [w EXCEPT !.ledger = d.ledger]
             w2 == [w EXCEPT !.ledger = AppendRow(d.ledger, hashFilePath, r.PathToFile,
                                                  Sha256Hex(ctx.fs[r.PathToFile]))]
         IN  IF d.err # NoErr THEN Failed(w1, <<>>, d.err, <<>>)
             ELSE IF d.dup THEN Returned(w2, <<>>, DuplicateResponse, "Skipped", <<>>)
             ELSE uploadFile(ctx, w1, r, hashFilePath, e.nets[1], IoOf(e, 1))
    ELSE uploadFile(ctx, w, r, hashFilePath, e.nets[1], IoOf(e, 1))

\* a variant of the duplicate check that goes on to upload when the check
\* returns an error
UploadPOSTFileIgnoreErr(ctx, w, r, hashFilePath, e) ==
    IF r.PathToFile # ""
    THEN LET d  == IsDuplicate(ctx.fs, w.ledger, hashFilePath, r.PathToFile, IoOf(e, 1))
             w1 == [w EXCEPT !.ledger = d.ledger]
         IN  IF d.err = NoErr /\ d.dup
             THEN Returned(w1, <<>>, DuplicateResponse, "Skipped", <<>>)
             ELSE uploadFile(ctx, w1, r, hashFilePath, e.nets[1], "none")
    ELSE uploadFile(ctx, w, r, hashFilePath, e.nets[1], IoOf(e, 1))

\* the duplicate check of UploadPOST and what follows it
UploadPOSTFile(ctx, w, r, hashFilePath, e) ==
    IF r.PathToFile # ""
    THEN LET d  == IsDuplicate(ctx.fs, w.ledger, hashFilePath, r.PathToFile, IoOf(e, 1))
             w1 == [w EXCEPT !.ledger = d.ledger]
         IN  IF d.err # NoErr THEN Failed(w1, <<>>, d.err, <<>>)
             ELSE IF d.dup THEN Returned(w1, <<>>, DuplicateResponse, "Skipped", <<>>)
             ELSE uploadFile(ctx, w1, r, hashFilePath, e.nets[1], IoOf(e, 1))
    ELSE uploadFile(ctx, w, r, hashFilePath, e.nets[1], IoOf(e, 1))

\* a variant of UploadPOST without the directory branch: a directory goes
\* through the single-file sequence
UploadPOSTNoDelegation(ctx, w, r, hashFilePath, e) ==
    IF r.PathToFile = "" /\ r.File = NoStream
    THEN Failed(w, <<>>, ErrMissingPathToFile, <<>>)
    ELSE IF r.PathToFile # "" /\ ~StatOK(ctx.fs, r.PathToFile)
    THEN Failed(w, <<>>, "stat " \o r.PathToFile, <<>>)
    ELSE UploadPOSTFile(ctx, w, r, hashFilePath, e)

\* a variant of UploadPOST without the check that the request has content
UploadPOSTNoInputCheck(ctx, w, r, hashFilePath, e) ==
    IF r.PathToFile # "" /\ ~StatOK(ctx.fs, r.PathToFile)
    THEN Failed(w, <<>>, "stat " \o r.PathToFile, <<>>)
    ELSE IF r.PathToFile # "" /\ IsDir(r.PathToFile)
    THEN LET b == UploadDirectory(ctx, w, r.PathToFile, r.Auth, hashFilePath, e)
         IN  [b EXCEPT !.res = NilResponse,
                       !.outcome = IF b.err # NoErr THEN "Failed" ELSE "Delegated"]
    ELSE UploadPOSTFile(ctx, w, r, hashFilePath, e)

\* UploadPOST: input check, directory delegation, duplicate check, upload
UploadPOST(ctx, w, r, hashFilePath, e) ==
    IF r.PathToFile = "" /\ r.File = NoStream
    THEN Failed(w, <<>>, ErrMissingPathToFile, <<>>)
    ELSE IF r.PathToFile # "" /\ ~StatOK(ctx.fs, r.PathToFile)
    THEN Failed(w, <<>>, "stat " \o r.PathToFile, <<>>)
    ELSE IF r.PathToFile # "" /\ IsDir(r.PathToFile)
    THEN LET b == UploadDirectory(ctx, w, r.PathToFile, r.Auth, hashFilePath, e)
         IN  [b EXCEPT !.res = NilResponse,
                       !.outcome = IF b.err # NoErr THEN "Failed" ELSE "Delegated"]
    ELSE UploadPOSTFile(ctx, w, r, hashFilePath, e)

\* a variant of the loop that goes on with the next file after a failure
UploadLoopContinue(ctx, w, files, i, auth, apiURL, hashFilePath, e, sent, done) ==
    IF i > Len(files) THEN Returned(w, sent, NilResponse, "Done", done)
    ELSE
    LET reqUpload == MkRequest(files[i], NoStream, "", FALSE, auth, MkURL(apiURL, "/file"))
        resp == UploadPOST(ctx, w, reqUpload, hashFilePath, EnvOfFile(e, i))
        w1   == [ledger |-> resp.ledger, audit |-> resp.audit, header |-> resp.header]
        item == [path |-> files[i], outcome |-> resp.outcome,
                 status |-> resp.res.StatusCode, loc |-> hashFilePath]
        rest == UploadLoopContinue(ctx, w1, files, i + 1, auth, apiURL, hashFilePath, e,
                                   sent \o resp.sent, Append(done, item))
    IN  IF resp.err # NoErr THEN [rest EXCEPT !.err = resp.err, !.outcome = "Failed"]
        ELSE rest

\* a variant of the loop whose duplicate checks use the rows the ledger held
\* when the batch began
UploadLoopCached(ctx, w, files, i, auth, apiURL, hashFilePath, e, sent, done) ==
    IF i > Len(files) THEN Returned(w, sent, NilResponse, "Done", done)
    ELSE
    LET reqUpload == MkRequest(files[i], NoStream, "", FALSE, auth, MkURL(apiURL, "/file"))
        rows  == w.ledger[hashFilePath].rows
        added == Cardinality({k \in DOMAIN done : done[k].outcome = "Recorded"})
        stale == [w EXCEPT !.ledger[hashFilePath].rows = SubSeq(rows, 1, Len(rows) - added)]
        resp == UploadPOST(ctx, stale, reqUpload, hashFilePath, EnvOfFile(e, i))
        w1   == [ledger |-> [resp.ledger EXCEPT ![hashFilePath].rows =
                                rows \o SubSeq(@, Len(rows) - added + 1, Len(@))],
                 audit |-> resp.audit, header |-> resp.header]
        item == [path |-> files[i], outcome |-> resp.outcome,
                 status |-> resp.res.StatusCode, loc |-> hashFilePath]
    IN  IF resp.err # NoErr
        THEN Failed(w1, sent \o resp.sent, resp.err, Append(done, item))
        ELSE UploadLoop(ctx, w1, files, i + 1, auth, apiURL, hashFilePath, e,
                        sent \o resp.sent, Append(done, item))

\* a variant of the loop that sends a failed file a second time before it
\* gives up
UploadLoopRetry(ctx, w, files, i, auth, apiURL, hashFilePath, e, sent, done) ==
    IF i > Len(files) THEN Returned(w, sent, NilResponse, "Done", done)
    ELSE
    LET reqUpload == MkRequest(files[i], NoStream, "", FALSE, auth, MkURL(apiURL, "/file"))
        first == UploadPOST(ctx, w, reqUpload, hashFilePath, EnvOfFile(e, i))
        wf    == [ledger |-> first.ledger, audit |-> first.audit, header |-> first.header]
        again == UploadPOST(ctx, wf, reqUpload, hashFilePath, EnvOfFile(e, i))
        resp  == IF first.err # NoErr
                 THEN [again EXCEPT !.sent = first.sent \o again.sent]
                 ELSE first
        w1   == [ledger |-> resp.ledger, audit |-> resp.audit, header |-> resp.header]
        item == [path |-> files[i], outcome |-> resp.outcome,
                 status |-> resp.res.StatusCode, loc |-> hashFilePath]
    IN  IF resp.err # NoErr
        THEN Failed(w1, sent \o resp.sent, resp.err, Append(done, item))
        ELSE UploadLoop(ctx, w1, files, i + 1, auth, apiURL, hashFilePath, e,
                        sent \o resp.sent, Append(done, item))

\* the loop of UploadDirectory over the listed files
UploadLoop(ctx, w, files, i, auth, apiURL, hashFilePath, e, sent, done) ==
    IF i > Len(files) THEN Returned(w, sent, NilResponse, "Done", done)
    ELSE
    LET reqUpload == MkRequest(files[i], NoStream, "", FALSE, auth, MkURL(apiURL, "/file"))
        resp == UploadPOST(ctx, w, reqUpload, hashFilePath, EnvOfFile(e, i))
        w1   == [ledger |-> resp.ledger, audit |-> resp.audit, header |-> resp.header]
        item == [path |-> files[i], outcome |-> resp.outcome,
                 status |-> resp.res.StatusCode, loc |-> hashFilePath]
    IN  IF resp.err # NoErr
        THEN Failed(w1, sent \o resp.sent, resp.err, Append(done, item))
        ELSE UploadLoop(ctx, w1, files, i + 1, auth, apiURL, hashFilePath, e,
                        sent \o resp.sent, Append(done, item))

\* the sequence s backwards
Reverse(s) == [i \in 1..Len(s) |-> s[Len(s) + 1 - i]]

\* a variant of UploadDirectory that takes the listed files last to first
UploadDirectoryReversed(ctx, w, directoryPath, auth, baseURL, e) ==
    LET apiURL == IF baseURL # "" THEN baseURL ELSE APIURL
        got    == GetFilesInDirectory(ctx.fs, directoryPath, e.walk)
    IN  IF got.err # NoErr THEN Failed(w, <<>>, got.err, <<>>)
        ELSE UploadLoop(ctx, w, Reverse(got.files), 1, auth, apiURL,
                        GetHashFilePath(ctx.mode), e, <<>>, <<>>)

\* UploadDirectory: base URL, walk, ledger location from the environment, loop
\* (baseURL = "" stands for a call without the optional argument)
UploadDirectory(ctx, w, directoryPath, auth, baseURL, e) ==
    LET apiURL == IF baseURL # "" THEN baseURL ELSE APIURL
        got    == GetFilesInDirectory(ctx.fs, directoryPath, e.walk)
    IN  IF got.err # NoErr THEN Failed(w, <<>>, got.err, <<>>)
        ELSE UploadLoop(ctx, w, got.files, 1, auth, apiURL, GetHashFilePath(ctx.mode),
                        e, <<>>, <<>>)

(***************************************************************************)
(* State. fs: the content at each file path; ledger[loc]: the hash file   *)
(* at loc; audit: the rows of upload_logs.csv; header: the Authorization  *)
(* entry of pd.Client.Header ("" when unset); csvWriter, envMode: the     *)
(* linked audit writer and ENV_MODE. last describes the most recent call  *)
(* and its result (loaded: the mapping LoadFileHashes returned; saved: the *)
(* arguments and duplicate check of the SaveFileHash just before it;      *)
(* listed: the paths GetFilesInDirectory returned; hash: the digest       *)
(* CalculateFileHash returned; fileName: the FileName of the request);    *)
(* rejected[loc] holds                                                    *)
(* (run: see Runs)                                                        *)
(* the contents whose upload was recorded at loc with a non-2xx status.   *)
(***************************************************************************)
NoCall ==
    [op |-> "none", path |-> "", stream |-> NoStream, loc |-> "", arg |-> "",
     io |-> "none", fileBytes |-> 0, outcome |-> "None",
     res |-> NilResponse, err |-> NoErr, sent |-> <<>>, files |-> <<>>,
     dup |-> FALSE, seenBefore |-> FALSE, afterRecorded |-> FALSE,
     afterFailed |-> FALSE, loaded |-> EmptyMap, saved |-> <<>>, listed |-> <<>>,
     hash |-> "", fileName |-> ""]

\* two runs of UploadPOST that may overlap: run[r].pc is the position of run
\* r in UploadPOST and uploadFile, path and bytes what it uploads, sent
\* whether it has made its Post, outcome how its most recent call ended;
\* overlap tells whether the other run was between its duplicate check and
\* its return at some moment of the call
Runs == {1, 2}

Other(r) == 3 - r

Idle == [pc |-> "idle", path |-> "", bytes |-> 0, sent |-> FALSE, outcome |-> "None",
         overlap |-> FALSE]

InFlight(x) == x.pc \in {"checked", "posted", "logged", "saving"}

InitWith(writers) ==
    /\ fs = [p \in FilePaths |-> IF p = "d/s/c" THEN MaxContent ELSE 1]
    /\ ledger = [l \in Locs |-> [exists |-> FALSE, rows |-> <<>>]]
    /\ audit = <<>>
    /\ header = ""
    /\ csvWriter \in writers
    /\ envMode = "test"
    /\ rejected = [l \in Locs |-> {}]
    /\ last = NoCall
    /\ run = [r \in Runs |-> Idle]

\* the build: pd.go sets UploadInfo.FormattedSize, a field that only the
\* UploadInfo of part_002 has
Init == InitWith({"part_002"})

\* either definition of SaveUploadInfoToCSV linked
InitAudit == InitWith(CsvWriters)

Ctx == [fs |-> fs, build |-> csvWriter, mode |-> envMode]
W == [ledger |-> ledger, audit |-> audit, header |-> header]

WithinBounds(L, rows) ==
    /\ Len(L["hashes.csv"].rows) + Len(L["test_hashes.csv"].rows) <= MaxLedgerRows
    /\ Len(AuditRecords(rows)) <= MaxAuditRows

BytesAt(path) == IF path \in FilePaths THEN fs[path] ELSE 0

\* the per-file results of a call: the batch's list, or the single file
ItemsOf(res, r, hashFilePath) ==
    IF r.PathToFile \in FilePaths
    THEN <<[path |-> r.PathToFile, outcome |-> res.outcome,
            status |-> res.res.StatusCode, loc |-> hashFilePath]>>
    ELSE res.files

RejectedAfter(items) ==
    [l \in Locs |-> rejected[l] \cup
        {fs[items[i].path] : i \in {j \in DOMAIN items :
             /\ items[j].loc = l
             /\ items[j].outcome = "Recorded"
             /\ ~Is2xx(items[j].status)}}]

\* a call of the program ends: its writes and its description
Commit(res, call, items) ==
    /\ WithinBounds(res.ledger, res.audit)
    /\ ledger' = res.ledger
    /\ audit' = res.audit
    /\ header' = res.header
    /\ rejected' = RejectedAfter(items)
    /\ last' = [call EXCEPT !.outcome = res.outcome, !.res = res.res,
                            !.err = res.err, !.sent = res.sent, !.files = res.files]
    /\ UNCHANGED <<fs, csvWriter, envMode, run>>

(***************************************************************************)
(* Inputs.                                                                 *)
(***************************************************************************)
APIKey == "test-api-key"

StreamRequests ==
    {MkRequest("d/a", c, "n.jpg", FALSE, APIKey, NoURL) : c \in Contents}
        \cup {MkRequest("", 1, name, FALSE, APIKey, NoURL) : name \in {"", "n.jpg"}}
        \cup {MkRequest("d/a", 1, "", FALSE, APIKey, NoURL)}
EmptyRequests == {MkRequest("", NoStream, "", FALSE, APIKey, NoURL)}

\* the ledger location of the environment's mode, and another one
EnvLoc == "test_hashes.csv"
OtherLoc == "hashes.csv"

PathRequest(p) == MkRequest(p, NoStream, "", FALSE, APIKey, NoURL)

\* calls of UploadPOST <<request, hashFilePath>>: files by their path
PathCalls == {<<PathRequest(p), EnvLoc>> : p \in FilePaths}

\* every kind of request on a file or stream
RequestCalls ==
    {<<r, EnvLoc>> : r \in StreamRequests \cup EmptyRequests
                          \cup {PathRequest("d/s/c"), MkRequest("d/b", NoStream, "", TRUE, APIKey, NoURL)}}

\* directories, with the ledger location of the mode and with another one
DirCalls == {<<PathRequest("d"), EnvLoc>>, <<PathRequest("d"), OtherLoc>>,
             <<PathRequest("d/s"), EnvLoc>>}

NFiles == Cardinality(FilePaths)

\* the environment of a call on one file
FileEnvs(faults) ==
    {[nets |-> <<net>>, io |-> f, ioAt |-> 1, walk |-> "ok"] :
        net \in NetOutcomes, f \in faults}

\* the environment of a batch: any outcome per file; or one failing I/O call
\* among accepted uploads; or a failing walk
BatchNets ==
    {[i \in 1..NFiles |-> net] : net \in NetOutcomes}
    \cup {[i \in 1..NFiles |-> IF i = k THEN net ELSE NetResponse(201, TRUE)] :
            k \in 1..NFiles, net \in {NetError, NetResponse(500, TRUE)}}

BatchEnvs(faults) ==
    {[nets |-> ns, io |-> "none", ioAt |-> 1, walk |-> "ok"] : ns \in BatchNets}
    \cup {[nets |-> [i \in 1..NFiles |-> NetResponse(201, TRUE)], io |-> f, ioAt |-> k,
           walk |-> "ok"] : f \in faults \ {"none"}, k \in 1..NFiles}
    \cup {[nets |-> [i \in 1..NFiles |-> NetResponse(201, TRUE)], io |-> "none",
           ioAt |-> 1, walk |-> "fail"] : f \in faults \ {"none"}}

EnvsFor(path, faults) == IF IsDir(path) THEN BatchEnvs(faults) ELSE FileEnvs(faults)

(***************************************************************************)
(* Actions: one per exported operation, and the user changing a file.     *)
(***************************************************************************)
\* the user writes or replaces a file between calls
WriteFile(p, c) ==
    /\ fs[p] # c
    /\ fs' = [fs EXCEPT ![p] = c]
    /\ UNCHANGED <<ledger, audit, header, csvWriter, envMode, rejected, last, run>>

\* the user removes a file between calls
RemoveFile(p) ==
    /\ fs[p] # Absent
    /\ fs' = [fs EXCEPT ![p] = Absent]
    /\ UNCHANGED <<ledger, audit, header, csvWriter, envMode, rejected, last, run>>

DoUploadPOST(r, hashFilePath, e) ==
    \E res \in {UploadPOST(Ctx, W, r, hashFilePath, e)} :
    LET call == [NoCall EXCEPT !.op = "UploadPOST", !.path = r.PathToFile,
                    !.stream = r.File, !.fileName = r.FileName,
                    !.loc = hashFilePath, !.io = e.io,
                    !.fileBytes = BytesAt(r.PathToFile),
                    !.dup = /\ r.PathToFile \in FilePaths
                            /\ IsDuplicate(fs, ledger, hashFilePath, r.PathToFile, e.io).dup,
                    !.seenBefore = /\ r.PathToFile \in FilePaths
                                   /\ r.File = NoStream
                                   /\ fs[r.PathToFile] \in rejected[hashFilePath],
                    !.afterRecorded = /\ last.op = "UploadPOST"
                                      /\ last.outcome = "Recorded"
                                      /\ last.stream = NoStream
                                      /\ last.loc = hashFilePath
                                      /\ r.File = NoStream
                                      /\ r.PathToFile \in FilePaths
                                      /\ fs[r.PathToFile] = last.fileBytes,
                    !.afterFailed = /\ last.op = "UploadPOST"
                                    /\ last.err = ErrTransport
                                    /\ last.stream = NoStream
                                    /\ last.path \in FilePaths
                                    /\ last.loc = hashFilePath
                                    /\ r.File = NoStream
                                    /\ r.PathToFile \in FilePaths
                                    /\ fs[r.PathToFile] = last.fileBytes]
    IN  Commit(res, call, ItemsOf(res, r, hashFilePath))

DoUploadDirectory(directoryPath, auth, baseURL, e) ==
    \E res \in {UploadDirectory(Ctx, W, directoryPath, auth, baseURL, e)} :
    LET call == [NoCall EXCEPT !.op = "UploadDirectory", !.path = directoryPath,
                    !.arg = baseURL, !.io = e.io]
    IN  Commit(res, call, res.files)

DoGetFilesInDirectory(dirPath, walk) ==
    \E got \in {GetFilesInDirectory(fs, dirPath, walk)} :
    LET res == [Returned(W, <<>>, NilResponse, "None", <<>>) EXCEPT !.err = got.err]
        call == [NoCall EXCEPT !.op = "GetFilesInDirectory", !.path = dirPath,
                    !.listed = got.files]
    IN  Commit(res, call, <<>>)

DoCalculateFileHash(filePath, fail) ==
    \E h \in {CalculateFileHash(fs, filePath, fail)} :
    LET res == [Returned(W, <<>>, NilResponse, "None", <<>>) EXCEPT !.err = h.err]
        call == [NoCall EXCEPT !.op = "CalculateFileHash", !.path = filePath,
                    !.io = IF fail THEN "hash" ELSE "none",
                    !.fileBytes = BytesAt(filePath), !.hash = h.hash]
    IN  Commit(res, call, <<>>)

DoInitializeHashFile(hashFilePath) ==
    \E L1 \in {InitializeHashFile(ledger, hashFilePath)} :
    LET res == Returned([W EXCEPT !.ledger = L1], <<>>, NilResponse, "None", <<>>)
        call == [NoCall EXCEPT !.op = "InitializeHashFile", !.loc = hashFilePath]
    IN  Commit(res, call, <<>>)

DoLoadFileHashes(hashFilePath, io) ==
    \E ld \in {LoadFileHashes(ledger, hashFilePath, io)} :
    LET res == [Returned([W EXCEPT !.ledger = ld.ledger], <<>>, NilResponse, "None", <<>>)
                    EXCEPT !.err = ld.err]
        call == [NoCall EXCEPT !.op = "LoadFileHashes", !.loc = hashFilePath, !.io = io,
                    !.loaded = ld.hashes,
                    !.saved = IF /\ last.op = "SaveFileHash"
                                 /\ last.err = NoErr
                                 /\ last.loc = hashFilePath
                              THEN <<last.path, last.arg, last.dup>> ELSE <<>>]
    IN  Commit(res, call, <<>>)

DoIsDuplicate(hashFilePath, filePath, io) ==
    \E d \in {IsDuplicate(fs, ledger, hashFilePath, filePath, io)} :
    LET res == [Returned([W EXCEPT !.ledger = d.ledger], <<>>, NilResponse, "None", <<>>)
                    EXCEPT !.err = d.err]
        call == [NoCall EXCEPT !.op = "IsDuplicate", !.loc = hashFilePath, !.io = io,
                    !.path = filePath, !.fileBytes = BytesAt(filePath), !.dup = d.dup]
    IN  Commit(res, call, <<>>)

DoSaveFileHash(hashFilePath, filePath, hash, io) ==
    \E s \in {SaveFileHash(fs, ledger, hashFilePath, filePath, hash, io)} :
    LET res == [Returned([W EXCEPT !.ledger = s.ledger], <<>>, NilResponse, "None", <<>>)
                    EXCEPT !.err = s.err]
        call == [NoCall EXCEPT !.op = "SaveFileHash", !.loc = hashFilePath, !.io = io,
                    !.path = filePath, !.fileBytes = BytesAt(filePath), !.arg = hash,
                    !.dup = IsDuplicate(fs, InitializeHashFile(ledger, hashFilePath),
                                        hashFilePath, filePath, io).dup]
    IN  Commit(res, call, <<>>)

(***************************************************************************)
(* UploadPOST of a file by its path, step by step, for runs that overlap: *)
(* every call on the hash file or the audit log is one step. The service  *)
(* accepts every upload.                                                   *)
(***************************************************************************)
RunUnchanged == UNCHANGED <<fs, csvWriter, envMode, rejected, last>>

\* UploadPOST up to the result of utils.IsDuplicate
RunCheck(r, p) ==
    /\ ~InFlight(run[r])
    /\ fs[p] # Absent
    /\ \E d \in {IsDuplicate(fs, ledger, EnvLoc, p, "none")} :
          /\ ledger' = d.ledger
          /\ run' = [run EXCEPT
                ![r] = [pc |-> IF d.dup THEN "done" ELSE "checked", path |-> p,
                        bytes |-> fs[p], sent |-> FALSE,
                        outcome |-> IF d.dup THEN "Skipped" ELSE "None",
                        overlap |-> InFlight(run[Other(r)])],
                ![Other(r)].overlap = @ \/ (InFlight(run[Other(r)]) /\ ~d.dup)]
    /\ UNCHANGED <<audit, header>>
    /\ RunUnchanged

\* uploadFile up to the response of Post
RunPost(r) ==
    /\ run[r].pc = "checked"
    /\ header' = addBasicAuthHeader(header, "", APIKey)
    /\ run' = [run EXCEPT ![r].pc = "posted", ![r].sent = TRUE]
    /\ UNCHANGED <<ledger, audit>>
    /\ RunUnchanged

\* utils.SaveUploadInfoToCSV
RunAudit(r) ==
    LET rsp == DecodedResponse(NetResponse(201, TRUE))
        uploadInfo == [FileName |-> Base(run[r].path), DirectoryPath |-> run[r].path,
                       URL |-> GetFileURL(rsp), UploadDateTime |-> "RFC3339",
                       FileSize |-> FileSizeOf(run[r].bytes),
                       MIMEType |-> GetMimeType(run[r].bytes),
                       Uploader |-> APIKey, UploadStatus |-> ToString(rsp.StatusCode)]
    IN  /\ run[r].pc = "posted"
        /\ audit' = SaveUploadInfoToCSV(csvWriter, audit, uploadInfo, "none").rows
        /\ Len(AuditRecords(audit')) <= MaxAuditRows
        /\ run' = [run EXCEPT ![r].pc = "logged"]
        /\ UNCHANGED <<ledger, header>>
        /\ RunUnchanged

\* utils.CalculateFileHash, then SaveFileHash up to the result of its own
\* IsDuplicate
RunSaveCheck(r) ==
    /\ run[r].pc = "logged"
    /\ \E d \in {IsDuplicate(fs, InitializeHashFile(ledger, EnvLoc), EnvLoc,
                              run[r].path, "none")} :
          /\ ledger' = d.ledger
          /\ run' = [run EXCEPT ![r].pc = IF d.dup THEN "done" ELSE "saving",
                                ![r].outcome = IF d.dup THEN "Recorded" ELSE @]
    /\ UNCHANGED <<audit, header>>
    /\ RunUnchanged

\* SaveFileHash from os.OpenFile on: the row is appended
RunSaveAppend(r) ==
    /\ run[r].pc = "saving"
    /\ ledger' = AppendRow(ledger, EnvLoc, run[r].path, Sha256Hex(run[r].bytes))
    /\ WithinBounds(ledger', audit)
    /\ run' = [run EXCEPT ![r].pc = "done", ![r].outcome = "Recorded"]
    /\ UNCHANGED <<audit, header>>
    /\ RunUnchanged

\* the user edits d/a
UserEdits == \E c \in Contents : WriteFile("d/a", c)

UploadSteps(calls, faults) ==
    \E call \in calls :
        \E e \in EnvsFor(call[1].PathToFile, faults) : DoUploadPOST(call[1], call[2], e)

\* the calls of UploadDirectory explored: <<directory, base URL>>
DirectoryCalls == {<<"d", "">>, <<"d/s", ServerURL>>}

DirectorySteps(calls, faults) ==
    \E call \in calls :
        \E e \in BatchEnvs(faults) : DoUploadDirectory(call[1], APIKey, call[2], e)

LedgerSteps(locs, paths, faults) ==
    \/ \E l \in locs : DoInitializeHashFile(l)
    \/ \E l \in locs, io \in faults \cap {"none", "load"} : DoLoadFileHashes(l, io)
    \/ \E l \in locs, p \in paths, io \in faults \cap {"none", "hash", "load"} :
          DoIsDuplicate(l, p, io)
    \/ \E l \in {EnvLoc}, p \in paths, h \in Digests,
          io \in faults \cap {"none", "hash", "load", "append"} :
          DoSaveFileHash(l, p, h, io)

(***************************************************************************)
(* Specifications. Every I/O call on the local stores succeeds, except in  *)
(* SpecIO.                                                                 *)
(***************************************************************************)
\* uploads of files by their path
Next == UserEdits \/ UploadSteps(PathCalls, {"none"})

Spec == Init /\ [][Next]_vars

\* the same with either audit writer
SpecAudit == InitAudit /\ [][Next]_vars

\* uploads of streams, anonymous uploads, requests without content
NextRequests == UploadSteps(RequestCalls, {"none"})

SpecRequests == Init /\ [][NextRequests]_vars

\* uploads of files by their path during which hashing the file or reading
\* the ledger may fail
CheckFaults == {"none", "hash", "load"}

CheckEnvs ==
    {[nets |-> <<NetResponse(201, TRUE)>>, io |-> f, ioAt |-> 1, walk |-> "ok"] :
        f \in CheckFaults}

NextIO ==
    \/ UserEdits
    \/ \E p \in {"d/a", "d/b"}, e \in CheckEnvs : DoUploadPOST(PathRequest(p), EnvLoc, e)

SpecIO == Init /\ [][NextIO]_vars

\* the ledger operations called directly
NextLedger == UserEdits \/ LedgerSteps({EnvLoc}, {"d/a", "d/b"}, {"none"})

SpecLedger == Init /\ [][NextLedger]_vars

\* directories: UploadDirectory, and UploadPOST on a directory
NextBatch ==
    \/ UserEdits
    \/ UploadSteps(DirCalls, {"none"})
    \/ DirectorySteps(DirectoryCalls, {"none"})

SpecBatch == Init /\ [][NextBatch]_vars

\* the directory walk, alone and in UploadDirectory, over a tree whose files
\* come and go, with a root that may be missing and a walk that may fail
WalkRoots == DirPaths \cup {"missing"}

WalkEnvs ==
    {[nets |-> [i \in 1..NFiles |-> NetResponse(201, TRUE)], io |-> "none", ioAt |-> 1,
      walk |-> wk] : wk \in {"ok", "fail"}}

NextWalk ==
    \/ \E p \in FilePaths : RemoveFile(p) \/ WriteFile(p, 1)
    \/ \E root \in WalkRoots, wk \in {"ok", "fail"} : DoGetFilesInDirectory(root, wk)
    \/ \E root \in WalkRoots, e \in WalkEnvs : DoUploadDirectory(root, APIKey, "", e)

SpecWalk == Init /\ [][NextWalk]_vars

\* the digest of files that are written, replaced and removed
NextHash ==
    \/ \E p \in FilePaths : RemoveFile(p) \/ \E c \in Contents : WriteFile(p, c)
    \/ \E p \in FilePaths \cup DirPaths, fail \in BOOLEAN : DoCalculateFileHash(p, fail)

SpecHash == Init /\ [][NextHash]_vars

\* two runs of UploadPOST on the files of d, overlapping or not
NextRace ==
    \E r \in Runs :
        \/ \E p \in FilePaths : RunCheck(r, p)
        \/ RunPost(r)
        \/ RunAudit(r)
        \/ RunSaveCheck(r)
        \/ RunSaveAppend(r)

SpecRace == Init /\ [][NextRace]_vars

\* every operation
AllCalls == {<<PathRequest("d/a"), EnvLoc>>, <<PathRequest("d/s"), EnvLoc>>}

NextAll ==
    \/ UploadSteps(AllCalls, {"none"})
    \/ DirectorySteps({<<"d/s", "">>}, {"none"})
    \/ LedgerSteps({EnvLoc}, {"d/a"}, {"none"})

SpecAll == Init /\ [][NextAll]_vars

(***************************************************************************)
(* Properties.                                                             *)
(***************************************************************************)
\* a call of the program (not an edit by the user) has just been made
CallStep == fs' = fs

\* the call described by c transmitted a file and the Post returned a response
GotResponse(c) == c.sent # <<>> /\ c.sent[1].rsp.kind = "response"

\* C1: when an UploadPOST of a file by its path ends Recorded and the next
\* call is an UploadPOST, with the same ledger location, of a file by its path
\* (the same path or another one) whose bytes are those the first call read,
\* the second call ends Skipped and transmits nothing.
C1_SecondUploadSkipped ==
    last.afterRecorded => (last.outcome = "Skipped" /\ last.sent = <<>>)

\* the second call was made on d/b after d/a was recorded
C1_Witness ==
    /\ last.afterRecorded
    /\ last.path = "d/b"
    /\ last.outcome = "Skipped"
    /\ ledger[last.loc].rows = <<<<"d/a", Sha256Hex(last.fileBytes)>>>>

C4_SkippedResult ==
    (last.op = "UploadPOST" /\ last.dup)
    => /\ last.err = NoErr
       /\ ~last.res.isNil
       /\ last.res.StatusCode = 409
       /\ last.res.Success = FALSE
       /\ last.res.Message = "Duplicate file. Upload skipped."
       /\ last.res.ID = ""
       /\ last.sent = <<>>

\* a duplicate check has been true
C4_Witness == last.op = "UploadPOST" /\ last.dup /\ last.outcome = "Skipped"

\* C5: an UploadPOST that ends Skipped leaves the ledger and the audit log
\* as they were before the call.
C5_SkippedLeavesStores ==
    [][(CallStep /\ last'.op = "UploadPOST" /\ last'.outcome = "Skipped")
       => (ledger' = ledger /\ audit' = audit)]_vars

\* an upload has been skipped while both stores held rows
C5_Witness ==
    /\ last.op = "UploadPOST"
    /\ last.outcome = "Skipped"
    /\ Len(audit) > 0
    /\ Len(ledger[last.loc].rows) > 0

\* C7 as stated: once a transmission of some bytes has been answered with a
\* non-success status and recorded in a ledger, every later UploadPOST of a
\* file with the same bytes against that ledger ends Skipped and transmits
\* nothing.
C7_RejectedNeverResent ==
    (last.op = "UploadPOST" /\ last.seenBefore)
    => (last.outcome = "Skipped" /\ last.sent = <<>>)

\* the rows of the ledger at l whose digest column is d
RowsWithDigest(l, d) == {i \in DOMAIN ledger[l].rows : ledger[l].rows[i][2] = d}

\* C2 as stated: IsDuplicate(store, path) is true if and only if the digest of
\* the file at path is the digest column of at least one persisted row of the
\* store, whatever the path of that row.
C2_DuplicateIffSomeRow ==
    (last.op = "IsDuplicate" /\ last.err = NoErr)
    => (last.dup <=> RowsWithDigest(last.loc, Sha256Hex(last.fileBytes)) # {})

\* C9 as stated: a write to the audit log appends one record, after the
\* eight-column header if and only if the log was empty, so that N appends to
\* an empty log leave the header followed by the N records.
C9_HeaderThenRecords ==
    [][audit' # audit
       => (/\ audit' = (IF audit = <<>> THEN <<CsvHeader>> ELSE audit)
                          \o <<audit'[Len(audit')]>>
           /\ Len(CsvHeader) = 8
           /\ audit'[Len(audit')] # CsvHeader)]_vars

\* C10 as stated: every SaveFileHash that returns no error appends exactly
\* the row (path, hash) to the ledger, whatever the ledger holds.
C10_AlwaysAppends ==
    [][(CallStep /\ last'.op = "SaveFileHash" /\ last'.err = NoErr)
       => ledger' = AppendRow(InitializeHashFile(ledger, last'.loc),
                              last'.loc, last'.path, last'.arg)]_vars

\* C10, amended: a SaveFileHash that returns no error appends exactly the row
\* (path, hash) when IsDuplicate(store, path) is false before the call, and
\* leaves the rows as they were when it is true: it consults the store.
C10_AppendsUnlessDuplicate ==
    [][(CallStep /\ last'.op = "SaveFileHash" /\ last'.err = NoErr)
       => ledger' = (IF IsDuplicate(fs, ledger, last'.loc, last'.path, "none").dup
                     THEN InitializeHashFile(ledger, last'.loc)
                     ELSE [InitializeHashFile(ledger, last'.loc) EXCEPT ![last'.loc].rows =
                              Append(@, <<last'.path, last'.arg>>)])]_vars

\* a SaveFileHash has returned no error without writing its row
C10_Witness ==
    /\ last.op = "SaveFileHash"
    /\ last.err = NoErr
    /\ ledger[last.loc].rows # <<>>
    /\ \A i \in DOMAIN ledger[last.loc].rows :
          ledger[last.loc].rows[i] # <<last.path, last.arg>>

\* s is a prefix of t
IsPrefix(s, t) == Len(s) <= Len(t) /\ \A i \in DOMAIN s : s[i] = t[i]

\* C6: when UploadDirectory lists files and the transmission of one of them
\* raises a transport error, the call returns that error and no result; the
\* files before it have ended Recorded or Skipped, the failing file is the
\* last one processed, and no later file is checked, transmitted or recorded:
\* the stores gain exactly the rows of the files recorded before the failure.
C6_BatchAborts ==
    [][(/\ CallStep
        /\ last'.op = "UploadDirectory"
        /\ \E k \in DOMAIN last'.sent : last'.sent[k].rsp.kind = "error")
       => LET done == last'.files
              n    == Len(done)
              recorded == {i \in 1..n : done[i].outcome = "Recorded"}
          IN  /\ n >= 1
              /\ done[n].outcome = "Failed"
              /\ \A i \in 1..(n - 1) : done[i].outcome \in {"Recorded", "Skipped"}
              /\ last'.err = ErrTransport
              /\ last'.res.isNil
              /\ IsPrefix([i \in 1..n |-> done[i].path], Walk(fs, last'.path))
              /\ last'.sent[Len(last'.sent)].rsp.kind = "error"
              /\ last'.sent[Len(last'.sent)].fileName = Base(done[n].path)
              /\ Len(last'.sent) = Cardinality(recorded) + 1
              /\ Len(AuditRecords(audit')) = Len(AuditRecords(audit)) + Cardinality(recorded)
              /\ \A l \in Locs :
                    Len(ledger'[l].rows) = Len(ledger[l].rows)
                        + Cardinality({i \in recorded : done[i].loc = l})]_vars

\* of the files d/a, d/b, d/s/c the first was recorded, the transmission of
\* the second failed and the third was left alone
C6_Witness ==
    /\ last.op = "UploadDirectory"
    /\ last.path = "d"
    /\ Len(last.files) = 2
    /\ last.files[1].outcome = "Recorded"
    /\ last.files[2].outcome = "Failed"
    /\ last.err = ErrTransport
    /\ Len(last.sent) = 2
    /\ fs["d/s/c"] # Absent
    /\ \A i \in DOMAIN ledger[EnvLoc].rows : ledger[EnvLoc].rows[i][1] # "d/s/c"

\* C8: the ledger is append-only: in every step of any sequence of calls of
\* InitializeHashFile, LoadFileHashes, IsDuplicate, SaveFileHash, UploadPOST
\* and UploadDirectory the rows of each ledger before the step are a prefix of
\* its rows after the step.
C8_AppendOnly ==
    [][\A l \in Locs : IsPrefix(ledger[l].rows, ledger'[l].rows)]_vars

\* a ledger with two rows of one path has been loaded
C8_Witness ==
    /\ last.op = "LoadFileHashes"
    /\ Len(ledger[last.loc].rows) >= 2
    /\ ledger[last.loc].rows[1][1] = ledger[last.loc].rows[2][1]

\* C11 as stated: while UploadPOST processes a directory, every duplicate
\* check and every ledger append uses the hashFilePath argument of that call:
\* each file is checked against that location and no other ledger is created
\* or written.
C11_BatchUsesArgumentLocation ==
    [][(CallStep /\ last'.op = "UploadPOST" /\ last'.path \in DirPaths)
       => (/\ \A i \in DOMAIN last'.files : last'.files[i].loc = last'.loc
           /\ \A l \in Locs \ {last'.loc} : ledger'[l] = ledger[l])]_vars

\* the paths of the per-file results of a call
PathsOf(items) == [i \in DOMAIN items |-> items[i].path]

\* C12: an UploadPOST whose target path is a directory is handed to the batch
\* driver: it returns no result, the files it processes are the first files of
\* the walk of the directory (at least one when the walk lists any), every
\* transmission it makes carries the name and content of one of these regular
\* files, and no ledger row and no audit record names a directory.
C12_DirectoryDelegated ==
    [][(CallStep /\ last'.op = "UploadPOST" /\ last'.path \in DirPaths)
       => LET done == PathsOf(last'.files) IN
          /\ last'.res.isNil
          /\ last'.outcome \in {"Delegated", "Failed"}
          /\ IsPrefix(done, Walk(fs, last'.path))
          /\ Walk(fs, last'.path) # <<>> => done # <<>>
          /\ \A i \in DOMAIN done : done[i] \in FilePaths
          /\ \A k \in DOMAIN last'.sent :
                \E i \in DOMAIN done :
                    /\ last'.sent[k].fileName = Base(done[i])
                    /\ last'.sent[k].bytes = fs[done[i]]
          /\ \A l \in Locs : \A i \in DOMAIN ledger'[l].rows :
                ledger'[l].rows[i][1] \notin DirPaths
          /\ \A i \in DOMAIN audit' : audit'[i][2] \notin DirPaths]_vars

\* UploadPOST on d skipped d/a, whose content was recorded before, and
\* transmitted the content of d/b
C12_Witness ==
    /\ last.op = "UploadPOST"
    /\ last.path = "d"
    /\ Len(last.files) = 2
    /\ last.files[1].outcome = "Skipped"
    /\ last.files[2].path = "d/b"
    /\ Len(last.sent) = 1
    /\ last.sent[1].fileName = "b"
    /\ last.sent[1].bytes = fs["d/b"]

\* the items of a batch that ended Recorded, in processing order
RecordedOf(items) == SelectSeq(items, LAMBDA it : it.outcome = "Recorded")

\* the rows a batch appends for its recorded items
RowsOf(items) ==
    [i \in DOMAIN RecordedOf(items) |->
        <<RecordedOf(items)[i].path, Sha256Hex(fs[RecordedOf(items)[i].path])>>]

\* the directory walk of the call described by c failed
WalkFailed(c) == c.err \in {"walk " \o c.path, "lstat " \o c.path}

\* C13: UploadDirectory takes the files in the order of the walk, one at a
\* time: the files processed are the first files of the walk, each but the last
\* processed has ended Recorded or Skipped, transmissions and ledger rows
\* follow that order, and the duplicate check of each file sees the rows of the
\* files recorded before it; when the walk succeeds and no file fails, every
\* listed file ends Recorded or Skipped and the call returns no error.
C13_BatchInOrder ==
    [][(CallStep /\ last'.op = "UploadDirectory" /\ ~WalkFailed(last'))
       => LET done == last'.files
              n    == Len(done)
              loc  == GetHashFilePath(envMode)
              before(i) == ledger[loc].rows \o RowsOf(SubSeq(done, 1, i - 1))
          IN  /\ IsPrefix(PathsOf(done), Walk(fs, last'.path))
              /\ \A i \in 1..(n - 1) : done[i].outcome \in {"Recorded", "Skipped"}
              /\ \A i \in 1..n :
                    done[i].outcome = "Skipped"
                        <=> HashInMap(LoadLoop(before(i), 1, EmptyMap),
                                      Sha256Hex(fs[done[i].path]))
              /\ ledger'[loc].rows = ledger[loc].rows \o RowsOf(done)
              /\ IsPrefix([i \in DOMAIN RecordedOf(done) |-> Base(RecordedOf(done)[i].path)],
                          [k \in DOMAIN last'.sent |-> last'.sent[k].fileName])
              /\ Len(last'.sent) <= Len(RecordedOf(done)) + 1
              /\ (\A i \in 1..n : done[i].outcome # "Failed")
                    => (/\ PathsOf(done) = Walk(fs, last'.path)
                        /\ last'.err = NoErr
                        /\ \A i \in 1..n : done[i].outcome \in {"Recorded", "Skipped"})]_vars

\* UploadDirectory on d recorded d/a, skipped d/b, which has the same content,
\* and recorded d/s/c
C13_Witness ==
    /\ last.op = "UploadDirectory"
    /\ last.path = "d"
    /\ last.err = NoErr
    /\ Len(last.files) = 3
    /\ last.files[1].outcome = "Recorded"
    /\ last.files[2].outcome = "Skipped"
    /\ last.files[3].outcome = "Recorded"
    /\ Len(last.sent) = 2

\* C14: when the transmission of a file raises a transport error, UploadPOST
\* ends Failed and returns the error and no result, and the rows of the audit
\* log and of every ledger are what they were before the call; the next
\* UploadPOST of a file with the same bytes against the same ledger transmits
\* again and is not skipped.
C14_TransportErrorNotRecorded ==
    [][(CallStep /\ last'.op = "UploadPOST" /\ last'.path \in FilePaths)
       => /\ (last'.sent # <<>> /\ last'.sent[1].rsp.kind = "error")
                => (/\ last'.outcome = "Failed"
                    /\ last'.err = ErrTransport
                    /\ last'.res.isNil
                    /\ audit' = audit
                    /\ \A l \in Locs : ledger'[l].rows = ledger[l].rows)
          /\ last'.afterFailed
                => (last'.outcome # "Skipped" /\ ~last'.dup /\ last'.sent # <<>>)]_vars

\* after a transport error on some bytes, the next upload of the same bytes
\* was transmitted and recorded
C14_Witness ==
    /\ last.op = "UploadPOST"
    /\ last.afterFailed
    /\ last.outcome = "Recorded"
    /\ last.sent # <<>>
    /\ last.sent[1].bytes = last.fileBytes

\* C15: when hashing the target file or loading the ledger fails during the
\* duplicate check of an UploadPOST, the call ends Failed and returns that
\* error and no result, makes no Post, and leaves the rows of the audit log
\* and of every ledger as they were.
C15_CheckFailureFails ==
    [][(/\ CallStep
        /\ last'.op = "UploadPOST"
        /\ last'.path \in FilePaths
        /\ last'.io \in {"hash", "load"})
       => (/\ last'.outcome = "Failed"
           /\ last'.err = (IF last'.io = "hash" THEN "read error"
                           ELSE "read " \o last'.loc)
           /\ last'.res.isNil
           /\ last'.sent = <<>>
           /\ audit' = audit
           /\ \A l \in Locs : ledger'[l].rows = ledger[l].rows)]_vars

\* loading a ledger that holds a row failed during an upload
C15_Witness ==
    /\ last.op = "UploadPOST"
    /\ last.io = "load"
    /\ last.outcome = "Failed"
    /\ last.sent = <<>>
    /\ Len(ledger[last.loc].rows) > 0
    /\ Len(audit) > 0

\* C16 as stated: whenever SaveFileHash(store, p, h) returns without error,
\* the LoadFileHashes(store) that follows returns a mapping in which p maps
\* to h.
C16_RoundTrip ==
    (last.op = "LoadFileHashes" /\ last.err = NoErr /\ last.saved # <<>>)
    => /\ last.saved[1] \in DOMAIN last.loaded
       /\ last.loaded[last.saved[1]] = last.saved[2]

\* C16, amended: whenever SaveFileHash(store, p, h) returns without error and
\* the duplicate check it makes on the file at p before writing is false, the
\* LoadFileHashes(store) that follows returns a mapping in which p maps to h.
C16_RoundTripUnlessDuplicate ==
    (last.op = "LoadFileHashes" /\ last.err = NoErr /\ last.saved # <<>>
        /\ ~last.saved[3])
    => /\ last.saved[1] \in DOMAIN last.loaded
       /\ last.loaded[last.saved[1]] = last.saved[2]

\* a row saved for a path that already had another row has been loaded back
C16_Witness ==
    /\ last.op = "LoadFileHashes"
    /\ last.err = NoErr
    /\ last.saved # <<>>
    /\ ~last.saved[3]
    /\ Len(ledger[last.loc].rows) >= 2
    /\ ledger[last.loc].rows[1][1] = last.saved[1]
    /\ ledger[last.loc].rows[1][2] # last.saved[2]
    /\ last.loaded[last.saved[1]] = last.saved[2]

\* C17: InitializeHashFile creates an empty ledger when none exists at the
\* location and leaves an existing ledger, and every other location, as it
\* was; a second call changes nothing.
C17_InitializeIdempotent ==
    [][(CallStep /\ last'.op = "InitializeHashFile")
       => LET l == last'.loc IN
          /\ ~ledger[l].exists => ledger'[l] = [exists |-> TRUE, rows |-> <<>>]
          /\ ledger[l].exists => ledger'[l] = ledger[l]
          /\ \A k \in Locs \ {l} : ledger'[k] = ledger[k]
          /\ InitializeHashFile(ledger', l) = ledger'
          /\ (last.op = "InitializeHashFile" /\ last.loc = l) => ledger' = ledger]_vars

\* InitializeHashFile has been called on a ledger that holds rows
C17_Witness ==
    /\ last.op = "InitializeHashFile"
    /\ last.err = NoErr
    /\ ledger[last.loc].exists
    /\ Len(ledger[last.loc].rows) >= 2

\* the index of the last row of rows whose path column is p
LastRowOf(rows, p) ==
    CHOOSE i \in DOMAIN rows :
        rows[i][1] = p /\ \A j \in DOMAIN rows : rows[j][1] = p => j <= i

\* C18: LoadFileHashes returns a mapping with one entry per distinct path of
\* the persisted rows, whose value is the digest of the last row of that path,
\* and leaves an existing store as it was.
C18_LastWriteWins ==
    [][(CallStep /\ last'.op = "LoadFileHashes" /\ last'.err = NoErr)
       => LET rows == ledger[last'.loc].rows IN
          /\ ledger'[last'.loc].rows = rows
          /\ ledger[last'.loc].exists => ledger' = ledger
          /\ DOMAIN last'.loaded = {rows[i][1] : i \in DOMAIN rows}
          /\ \A p \in DOMAIN last'.loaded :
                last'.loaded[p] = rows[LastRowOf(rows, p)][2]]_vars

\* a store in which d/a has two rows with different digests, and d/b one, has
\* been loaded: two entries, d/a with the later digest
C18_Witness ==
    /\ last.op = "LoadFileHashes"
    /\ last.err = NoErr
    /\ Len(ledger[last.loc].rows) = 3
    /\ DOMAIN last.loaded = {"d/a", "d/b"}
    /\ \E i, j \in DOMAIN ledger[last.loc].rows :
          /\ i < j
          /\ ledger[last.loc].rows[i][1] = "d/a"
          /\ ledger[last.loc].rows[j][1] = "d/a"
          /\ ledger[last.loc].rows[i][2] # ledger[last.loc].rows[j][2]
          /\ last.loaded["d/a"] = ledger[last.loc].rows[j][2]

RECURSIVE FilesUnder(_, _)
\* the regular files present anywhere under dir
FilesUnder(f, dir) ==
    UNION {IF IsDir(Children(dir)[i]) THEN FilesUnder(f, Children(dir)[i])
           ELSE IF f[Children(dir)[i]] # Absent THEN {Children(dir)[i]} ELSE {} :
           i \in DOMAIN Children(dir)}

\* C19: a GetFilesInDirectory(root) that returns no error returns every
\* regular file present anywhere under root exactly once and no directory: for
\* the root d holding three regular files, one of them in a nested
\* subdirectory, it returns exactly three paths.
C19_WalkListsRegularFiles ==
    [][(CallStep /\ last'.op = "GetFilesInDirectory" /\ last'.err = NoErr)
       => LET listed == last'.listed IN
          /\ {listed[i] : i \in DOMAIN listed} = FilesUnder(fs, last'.path)
          /\ Len(listed) = Cardinality(FilesUnder(fs, last'.path))
          /\ \A i \in DOMAIN listed : ~IsDir(listed[i])
          /\ (last'.path = "d" /\ \A p \in FilePaths : fs[p] # Absent)
                => Len(listed) = 3]_vars

\* the walk of d has listed its three regular files
C19_Witness ==
    /\ last.op = "GetFilesInDirectory"
    /\ last.path = "d"
    /\ last.err = NoErr
    /\ last.listed = <<"d/a", "d/b", "d/s/c">>

\* C20: when the directory walk fails, because the root is missing or a
\* directory is unreadable, GetFilesInDirectory returns the error and no
\* list, and UploadDirectory returns that error having processed no file, made
\* no Post and left the ledgers, the audit log and the client header untouched.
C20_WalkFailureAborts ==
    [][(CallStep /\ WalkFailed(last'))
       => /\ last'.op = "GetFilesInDirectory" => last'.listed = <<>>
          /\ last'.op = "UploadDirectory"
                => (/\ last'.outcome = "Failed"
                    /\ last'.res.isNil
                    /\ last'.files = <<>>
                    /\ last'.sent = <<>>
                    /\ ledger' = ledger
                    /\ audit' = audit
                    /\ header' = header)]_vars

\* the walk of d failed in an UploadDirectory although d holds a file that is
\* not in the ledger, after an earlier batch was recorded
C20_Witness ==
    /\ last.op = "UploadDirectory"
    /\ last.err = "walk d"
    /\ last.files = <<>>
    /\ Len(ledger[EnvLoc].rows) = 1
    /\ audit # <<>>
    /\ \E p \in FilePaths :
          /\ fs[p] # Absent
          /\ \A i \in DOMAIN ledger[EnvLoc].rows :
                ledger[EnvLoc].rows[i][2] # Sha256Hex(fs[p])

\* s is made of lowercase hexadecimal digits
IsLowerHex(s) ==
    \A i \in 1..Len(s) : \E d \in DOMAIN HexDigits : SubSeq(s, i, i) = HexDigits[d]

C22_SizeColumnFormatted ==
    [][(CallStep /\ audit' # audit /\ last'.op = "UploadPOST")
       => LET row  == audit'[Len(audit')]
              size == FileSizeOf(last'.sent[1].bytes)
          IN  /\ row[5] = FormatFileSize(size)
              /\ size = 1536 => row[5] = "1.5 KB"
              /\ size = 0 => row[5] = "0.0 B"
              /\ size >= 1024 => row[5] # ToString(size)]_vars

\* the call described by c failed with err before any Post
FailedEarly(c, err) ==
    c.outcome = "Failed" /\ c.err = err /\ c.res.isNil /\ c.sent = <<>>

\* C23 as stated: an UploadPOST with neither a path nor a stream fails with
\* "file path or file reader is required", and an UploadPOST with a stream and
\* no file name fails with the missing-filename error; in both cases no Post
\* is made and no row is added to a ledger or to the audit log.
C23_InputErrors ==
    [][(CallStep /\ last'.op = "UploadPOST")
       => /\ (last'.path = "" /\ last'.stream = NoStream)
                => (/\ FailedEarly(last', "file path or file reader is required")
                    /\ \A l \in Locs : ledger'[l].rows = ledger[l].rows
                    /\ audit' = audit)
          /\ (last'.stream # NoStream /\ last'.fileName = "")
                => (/\ FailedEarly(last', ErrMissingFilename)
                    /\ \A l \in Locs : ledger'[l].rows = ledger[l].rows
                    /\ audit' = audit)]_vars

\* C23, amended: an UploadPOST with neither a path nor a stream fails with
\* "file path or file reader is required", and an UploadPOST with a stream, no
\* path and no file name fails with the missing-filename error; in both cases
\* no Post is made, no row is added to a ledger or to the audit log and no
\* ledger file is created.
C23_InputErrorsWithoutPath ==
    [][(CallStep /\ last'.op = "UploadPOST" /\ last'.path = "")
       => /\ last'.stream = NoStream
                => (/\ FailedEarly(last', "file path or file reader is required")
                    /\ ledger' = ledger /\ audit' = audit)
          /\ (last'.stream # NoStream /\ last'.fileName = "")
                => (/\ FailedEarly(last', ErrMissingFilename)
                    /\ ledger' = ledger /\ audit' = audit)]_vars

\* a stream without path and file name has been refused while the stores held
\* rows
C23_Witness ==
    /\ last.op = "UploadPOST"
    /\ last.path = ""
    /\ last.stream # NoStream
    /\ last.err = ErrMissingFilename
    /\ Len(audit) > 0
    /\ Len(ledger[last.loc].rows) > 0

\* C24: every duplicate check of a batch reads the ledger as persisted at that
\* moment: the first listed file is Skipped exactly when the ledger, as left by
\* the calls before, maps some path to its digest, and a listed file whose
\* bytes are those of a file transmitted and Recorded earlier in the same
\* UploadDirectory is Skipped and not transmitted.
C24_CheckSeesEarlierRows ==
    [][(CallStep /\ last'.op = "UploadDirectory" /\ ~WalkFailed(last'))
       => LET done  == last'.files
              loc   == GetHashFilePath(envMode)
              known == LoadLoop(ledger[loc].rows, 1, EmptyMap)
              names == {last'.sent[k].fileName : k \in DOMAIN last'.sent}
          IN  /\ \A i, j \in DOMAIN done :
                    (/\ i < j
                     /\ done[i].outcome = "Recorded"
                     /\ fs[done[i].path] = fs[done[j].path])
                    => (/\ Base(done[i].path) \in names
                        /\ done[j].outcome = "Skipped"
                        /\ Base(done[j].path) \notin names)
              /\ done # <<>>
                    => (done[1].outcome = "Skipped"
                            <=> HashInMap(known, Sha256Hex(fs[done[1].path])))]_vars

\* a batch over d began with an empty ledger, transmitted d/a and d/s/c and
\* skipped d/b, whose bytes are those of d/a
C24_Witness ==
    /\ last.op = "UploadDirectory"
    /\ last.path = "d"
    /\ fs["d/a"] = fs["d/b"]
    /\ fs["d/a"] # fs["d/s/c"]
    /\ [k \in DOMAIN last.sent |-> last.sent[k].fileName] = <<"a", "c">>
    /\ ledger[EnvLoc].rows = <<<<"d/a", Sha256Hex(fs["d/a"])>>,
                               <<"d/s/c", Sha256Hex(fs["d/s/c"])>>>>

\* C25 as stated: every UploadPOST of a file or of a named stream computes the
\* digest of the content it is about to send and checks it against the ledger
\* before any transmission: when the ledger maps some path to the digest of
\* that content, stream or file, the call ends Skipped and makes no Post.
C25_StreamHashChecked ==
    [][(/\ CallStep
        /\ last'.op = "UploadPOST"
        /\ last'.path \notin DirPaths
        /\ (last'.stream # NoStream \/ last'.path \in FilePaths)
        /\ (last'.stream # NoStream => last'.fileName # "")
        /\ LET content == IF last'.stream # NoStream THEN last'.stream
                          ELSE last'.fileBytes
           IN  HashInMap(LoadLoop(ledger[last'.loc].rows, 1, EmptyMap),
                         Sha256Hex(content)))
       => (last'.outcome = "Skipped" /\ last'.sent = <<>>)]_vars

\* both runs have transmitted, in their most recent calls, the same bytes
BothTransmitted ==
    /\ run[1].sent /\ run[2].sent
    /\ run[1].bytes = run[2].bytes

Known(L, l, h) == HashInMap(LoadLoop(L[l].rows, 1, EmptyMap), h)

\* C27 as stated: a SaveFileHash(store, path, hash) that returns no error
\* leaves the rows of the store unchanged when the hash passed in is already
\* present in the store, and appends exactly the row (path, hash) when it is
\* absent.
C27_SavesIfHashAbsent ==
    [][(CallStep /\ last'.op = "SaveFileHash" /\ last'.err = NoErr)
       => LET rows == ledger[last'.loc].rows IN
          IF Known(ledger, last'.loc, last'.arg)
          THEN ledger'[last'.loc].rows = rows
          ELSE ledger'[last'.loc].rows = Append(rows, <<last'.path, last'.arg>>)]_vars

\* C27, amended: a SaveFileHash(store, path, hash) that returns no error
\* leaves the rows of the store unchanged when the digest of the file at path
\* is already present in the store, and appends exactly the row (path, hash)
\* when that digest is absent, whatever the hash passed in; when the hash
\* passed in is the digest of the file at path, the store is unchanged if the
\* hash is present and gains exactly the row (path, hash) if it is absent.
C27_SavesIfFileDigestAbsent ==
    [][(CallStep /\ last'.op = "SaveFileHash" /\ last'.err = NoErr)
       => LET rows   == ledger[last'.loc].rows
              digest == Sha256Hex(last'.fileBytes)
              after  == ledger'[last'.loc].rows
          IN  /\ Known(ledger, last'.loc, digest) => after = rows
              /\ ~Known(ledger, last'.loc, digest)
                    => after = Append(rows, <<last'.path, last'.arg>>)
              /\ last'.arg = digest
                    => after = (IF Known(ledger, last'.loc, last'.arg) THEN rows
                                ELSE Append(rows, <<last'.path, last'.arg>>))]_vars

\* SaveFileHash was given a hash the store already held, for a file whose own
\* digest the store did not hold, and appended a second row with that hash
C27_Witness ==
    /\ last.op = "SaveFileHash"
    /\ last.err = NoErr
    /\ last.arg # Sha256Hex(last.fileBytes)
    /\ LET rows == ledger[last.loc].rows IN
       /\ Len(rows) >= 2
       /\ rows[Len(rows)] = <<last.path, last.arg>>
       /\ \E i \in 1..(Len(rows) - 1) : rows[i][2] = last.arg /\ rows[i][1] # last.path

\* C28 as stated: a request carries the Authorization header only when it has
\* a token and is not anonymous: every Post of an anonymous UploadPOST is made
\* without an Authorization header, whatever requests the client made before.
C28_AnonymousCarriesNoAuthorization ==
    last.op = "UploadPOST"
    => \A k \in DOMAIN last.sent :
          last.sent[k].anonymous => last.sent[k].authorization = ""

\* the number of exchanges in sent that carried the file name name
SentCount(sent, name) == Cardinality({k \in DOMAIN sent : sent[k].fileName = name})

\* C29: a batch run over the n listed files returns, Done or Failed, after at
\* most one attempt and at most one transmission per listed file and no
\* transmission of anything else, so after at most n transmissions.
C29_BatchBounded ==
    [][(CallStep /\ last'.op = "UploadDirectory" /\ ~WalkFailed(last'))
       => LET listed == Walk(fs, last'.path)
              done   == last'.files
          IN  /\ last'.outcome \in {"Done", "Failed"}
              /\ IsPrefix(PathsOf(done), listed)
              /\ \A i, j \in DOMAIN done : done[i].path = done[j].path => i = j
              /\ \A k \in DOMAIN last'.sent :
                    \E i \in DOMAIN done : last'.sent[k].fileName = Base(done[i].path)
              /\ \A i \in DOMAIN listed : SentCount(last'.sent, Base(listed[i])) <= 1
              /\ Len(last'.sent) <= Len(listed)]_vars

\* a batch over several files stopped at a file whose transmission failed
C29_Witness ==
    /\ last.op = "UploadDirectory"
    /\ last.outcome = "Failed"
    /\ Len(last.files) >= 2
    /\ Len(last.files) < Len(Walk(fs, last.path))
    /\ Len(last.sent) = Len(last.files)

\* C30 as stated: every UploadPOST call returns either a result and no error
\* or no result and an error; never no result and no error, a directory whose
\* batch completed included.
C30_ResultOrError ==
    last.op = "UploadPOST"
    => \/ ~last.res.isNil /\ last.err = NoErr
       \/ last.res.isNil /\ last.err # NoErr

\* uploads of files by their path during which an I/O call made after the
\* answer was decoded may fail: the audit append, the digest computation
\* that follows it, or the ledger append
RecordFaults == {"none", "audit", "rehash", "append"}

RecordEnvs ==
    {[nets |-> <<NetResponse(201, TRUE)>>, io |-> f, ioAt |-> 1, walk |-> "ok"] :
        f \in RecordFaults}

NextRecord ==
    \/ UserEdits
    \/ \E p \in {"d/a", "d/b"}, e \in RecordEnvs : DoUploadPOST(PathRequest(p), EnvLoc, e)

SpecRecord == Init /\ [][NextRecord]_vars

\* C31 as stated: a single-file UploadPOST that returns an error has added no
\* row to the ledger and no row to the audit log, also when the audit append
\* succeeded and the digest computation or the ledger append after it failed.
C31_ErrorLeavesStoresUnchanged ==
    [][(CallStep /\ last'.op = "UploadPOST" /\ ~IsDir(last'.path) /\ last'.err # NoErr)
       => /\ audit' = audit
          /\ \A l \in Locs : ledger'[l].rows = ledger[l].rows]_vars

\* C32 as stated: after any sequence of sequential UploadPOST and
\* UploadDirectory calls on a ledger that starts empty, with changes of file
\* contents between the calls, no two rows of the ledger carry the same digest.
C32_NoTwoRowsSameDigest ==
    \A l \in Locs :
        \A i, j \in DOMAIN ledger[l].rows :
            ledger[l].rows[i][2] = ledger[l].rows[j][2] => i = j

\* C33 as stated: for an UploadPOST with a path, a stream given with it or not,
\* the digest that the duplicate check looks up and the digest written to the
\* ledger are the digest of the bytes transmitted: the call is Skipped exactly
\* when the ledger maps some path to the digest of the bytes it would send,
\* and a Recorded call appends the row of the digest of the bytes it sent.
C33_DigestOfTransmittedBytes ==
    [][(/\ CallStep
        /\ last'.op = "UploadPOST"
        /\ last'.path \in FilePaths
        /\ (last'.stream # NoStream => last'.fileName # "")
        /\ last'.err = NoErr)
       => LET content == IF last'.stream # NoStream THEN last'.stream
                         ELSE last'.fileBytes
              rows    == ledger[last'.loc].rows
          IN  /\ last'.outcome = "Skipped"
                    <=> HashInMap(LoadLoop(rows, 1, EmptyMap), Sha256Hex(content))
              /\ last'.outcome = "Recorded"
                    => /\ Len(last'.sent) = 1
                       /\ last'.sent[1].bytes = content
                       /\ ledger'[last'.loc].rows
                            = Append(rows, <<last'.path, Sha256Hex(last'.sent[1].bytes)>>)]_vars

\* C34 as stated: when UploadPOST delegates a directory to the batch driver,
\* every file under it is sent to the URL a direct UploadPOST of the file
\* uses, the API base URL followed by "/file", never to a URL made from the
\* ledger location.
C34_DelegatedBatchURL ==
    [][(CallStep /\ last'.op = "UploadPOST" /\ IsDir(last'.path))
       => \A k \in DOMAIN last'.sent :
             /\ last'.sent[k].url = MkURL(APIURL, "/file")
             /\ last'.sent[k].url.base \notin Locs]_vars

====
